---- MODULE Spec2Model ----
(***************************************************************************)
(* Evidence collection orchestration: EvidenceController (control context) *)
(* and CollectionThread (worker), src/core/evidence_controller.py.         *)
(* One controller instance, one control thread, one worker per run.        *)
(* LoggerService (src/services/logger.py) and HashCalculator               *)
(* (src/services/hash_calculator.py) have their own specifications,        *)
(* LoggerSpec and HashSpec; the orchestrator specifications keep the       *)
(* state of these two services fixed, and conversely.                      *)
(***************************************************************************)
EXTENDS Integers, Sequences, FiniteSets, TLC

\* ---------------------------------------------------------------- bounds
MaxModules == 2     \* longest module-id list passed to start_collection
MaxClock == 1       \* last second of wall-clock time in LoggerSpec (seconds 0..MaxClock)
MaxRows == 2        \* most log_collection rows written into one ledger
MaxFileLen == 2     \* longest hashed file, in bytes
MaxAlgs == 2        \* longest algorithm list passed to calculate_file_hashes
MaxChunk == 1       \* bytes one read() returns at most (CHUNK_SIZE, scaled to the files of the model)
UnitsPerGiB == 2    \* file sizes are counted in units of 1/UnitsPerGiB GiB
MaxFileGiB == 6     \* largest file of an output tree, in GiB
MaxTreeFiles == 2   \* most files in an output tree
MaxDuration == 1    \* largest capture_duration of the network module, in seconds
MaxNetFiles == 1    \* most files the collectors of the network module append before the hashing

\* ------------------------------------------------------- registry / ids
\* EvidenceController._create_module: keys of module_map
module_map ==
    {"network", "filesystem", "live_system", "browser",
     "memory", "disk", "registry", "eventlogs"}

\* ids a caller passes in this model: two registered ids and an unknown one
RequestIds == {"network", "memory", "bogus"}

\* registered ids whose import or constructor may raise inside _create_module
MayBreak == {"memory"}

\* get_module_info()["name"] of each module class
ModuleName(id) ==
    CASE id = "network"     -> "Network Collection (Wireshark Compatible)"
      [] id = "filesystem"  -> "File System Collection"
      [] id = "live_system" -> "Live System Collection"
      [] id = "browser"     -> "Browser Artifacts Collection"
      [] id = "memory"      -> "Memory Acquisition (Volatility Compatible)"
      [] id = "disk"        -> "Disk Acquisition (Autopsy Compatible)"
      [] id = "registry"    -> "Registry Collection"
      [] id = "eventlogs"   -> "Event Logs Collection"
      [] OTHER              -> "Unknown"

SeqsUpTo(S, n) == UNION {[1..k -> S] : k \in 0..n}

ModuleIdLists == SeqsUpTo(RequestIds, MaxModules)

VARIABLES
    is_running,          \* EvidenceController.is_running
    collection_thread,   \* EvidenceController.collection_thread: "None" or "thread" (the one object it refers to)
    modules,             \* CollectionThread.modules: ids of the module instances, in order
    compression,         \* config["compression"]["enabled"] of the thread
    should_stop,         \* CollectionThread.should_stop
    wpc,                 \* position of the worker inside CollectionThread.run
    i,                   \* loop index of run (1-based, enumerate(self.modules, 1))
    completed,           \* local `completed` of run
    failed_modules,      \* local `failed_modules` of run (module names)
    success,             \* local `success` of run (result of the last execute())
    events,              \* signals emitted on the current thread object, in emission order
    calls,               \* per module: outcome of initialize/execute/cleanup ("none" = not called)
    ctl_pc,              \* position of the control context inside stop_collection
    ret,                 \* value returned by the last EvidenceController call ("none": no call yet, or stop_collection)
    stop_k,              \* index of the first module boundary check that follows the assignment should_stop = True (0: flag never set)
    clock,               \* wall-clock time in whole seconds, what strftime("%Y%m%d_%H%M%S") shows
    ledgers,             \* the CSV files on disk: path -> rows, a path being <<directory, timestamp>>
    text_logs,           \* the human log files on disk (their paths)
    text_log_path,       \* LoggerService.text_log_path
    csv_log_path,        \* LoggerService.csv_log_path
    csv_file,            \* LoggerService.csv_file / csv_writer: path of the open ledger
    handlers,            \* paths of the FileHandlers attached to the logging logger
    log_ret,             \* value returned by the last LoggerService call
    hfile,               \* the file at the hashed path: its state and bytes
    hcall,               \* the HashCalculator call in progress at its caller: inputs and result
    ztree,               \* the files under output_dir when _compress_evidence walks it: their sizes
    zcall,               \* the _compress_evidence call in progress at its caller: inputs and effects
    os_admin,            \* what shell32.IsUserAnAdmin() answers in this process: "True" or "False"
    pm_is_admin,         \* PrivilegeManager._is_admin: "None", "True" or "False"
    pm_answers,          \* the values is_admin() has returned on this PrivilegeManager
    pcall,               \* the last call of the PrivilegeManager by another caller than the window: its argument and result
    cards,               \* MainWindow.module_cards: module id -> the card is enabled
    win_checked,         \* MainWindow.check_privileges has run on these cards
    selected_modules,    \* MainWindow.selected_modules
    config,              \* ConfigManager.config: top-level key -> entry
    profiles_file,       \* the file profiles.json: missing, not parseable, or the JSON document in it
    ccall,               \* the last ConfigManager call: operation, profile name, returned value, config before a load
    snap,                \* per profile name: the config at its last successful save_profile, while the file has not been damaged since
    deleted,             \* profile names whose delete_profile returned True and that were not saved again
    minst,               \* a module object made by _create_module: its id, status, progress and error_message
    mcall,               \* the last call of the orchestrator on that object: method and returned value
    net_pc,              \* position of NetworkModule.execute: "idle", "collect", "join", "hash", "done"
    cap_pc,              \* the capture thread: "none", "running", "finished"
    net_now,             \* seconds since execute() began
    cap_end,             \* the second at which subprocess.run returns or raises in the capture thread
    cap_ok,              \* whether it returns with returncode 0 and the capture file exists
    capture_duration,    \* NetworkModule.capture_duration, in seconds
    join_deadline,       \* the second at which capture_thread.join gives up
    collected_files,     \* NetworkModule.collected_files
    hash_pos,            \* index of the list iterator of _calculate_hashes (1-based)
    net_rows             \* the files _calculate_hashes has passed to log_collection, one per row

orchVars == <<is_running, collection_thread, modules, compression,
              should_stop, wpc, i, completed, failed_modules, success, events,
              calls, ctl_pc, ret, stop_k>>
loggerVars == <<clock, ledgers, text_logs, text_log_path, csv_log_path,
                csv_file, handlers, log_ret>>
hashVars == <<hfile, hcall>>
zipVars == <<ztree, zcall>>

\* the state of the services that have a specification of their own
privVars == <<os_admin, pm_is_admin, pm_answers, pcall, cards, win_checked, selected_modules>>
cfgVars == <<config, profiles_file, ccall, snap, deleted>>
modVars == <<minst, mcall>>
netVars == <<net_pc, cap_pc, net_now, cap_end, cap_ok, capture_duration,
             join_deadline, collected_files, hash_pos, net_rows>>
auxVars == <<zipVars, privVars, cfgVars, modVars, netVars>>

vars == <<orchVars, loggerVars, hashVars, auxVars>>

ctlVars == <<is_running, collection_thread, ctl_pc, ret>>
workerLocals == <<wpc, i, completed, failed_modules, success, calls>>

\* ---------------------------------------------------------------- events
NoEv == [sig |-> "", text |-> "", level |-> "", id |-> "", ok |-> FALSE, cur |-> 0, total |-> 0]

LogEv(text, level)   == [NoEv EXCEPT !.sig = "log_message", !.text = text, !.level = level]
LogEvFor(text, level, name) ==
    [NoEv EXCEPT !.sig = "log_message", !.text = text, !.level = level, !.id = name]
StartedEv(id)        == [NoEv EXCEPT !.sig = "module_started", !.id = id]
ModDoneEv(id, ok)    == [NoEv EXCEPT !.sig = "module_completed", !.id = id, !.ok = ok]
ProgressEv(cur, tot) == [NoEv EXCEPT !.sig = "progress_updated", !.cur = cur, !.total = tot]
\* collection_completed(success, message); cur carries the number formatted into the message
DoneEv(ok, text, n)  == [NoEv EXCEPT !.sig = "collection_completed", !.ok = ok, !.text = text, !.cur = n]

MsgStopped  == "Stopped by user"
MsgSuccess  == "Collection completed successfully!"
MsgPartial  == "Collection completed with N failed module(s)"
MsgFailed   == "Collection failed: e"

NoCalls == [init |-> "none", exec |-> "none", cleanup |-> "none"]

\* ---------------------------------------------------------- LoggerService
\* directories passed to LoggerService.initialize
Dirs == {"d1", "d2"}
\* a file made by initialize: <<directory, strftime("%Y%m%d_%H%M%S")>>
Paths == Dirs \X (0..MaxClock)
NoPath == <<>>
\* the header row written by initialize, and a row written by log_collection
HeaderRow == "Timestamp,Level,Module,Action,Status,Details,File_Path,File_Size,Hash_MD5,Hash_SHA256"
CollectionRow == "COLLECTION"

\* LoggerService.__init__: no directory, no path, no file
LoggerInit ==
    /\ clock = 0
    /\ ledgers = [p \in Paths |-> <<>>]
    /\ text_logs = {}
    /\ text_log_path = NoPath
    /\ csv_log_path = NoPath
    /\ csv_file = NoPath
    /\ handlers = {}
    /\ log_ret = "none"

\* ---------------------------------------------------------- HashCalculator
\* HashCalculator.supported_algorithms
supported_algorithms == <<"md5", "sha1", "sha256">>
Supported == {supported_algorithms[k] : k \in DOMAIN supported_algorithms}
\* algorithm names a caller passes: two supported ones and an unsupported one
AlgNames == {"md5", "sha256", "crc32"}
AlgLists == SeqsUpTo(AlgNames, MaxAlgs)

Bytes == {0, 1}
Contents == SeqsUpTo(Bytes, MaxFileLen)
\* the file at the path: it exists and can be read, does not exist, or
\* exists and cannot be opened
Files ==
    {[state |-> "ok", content |-> c] : c \in Contents}
      \cup {[state |-> "missing", content |-> <<>>]}
      \cup {[state |-> "denied", content |-> c] : c \in Contents}
\* which read() of the chunk loop raises (0: none does)
FailPoints == 0..(MaxFileLen + 1)

HexDigits == <<"0", "1", "2", "3", "4", "5", "6", "7",
               "8", "9", "a", "b", "c", "d", "e", "f">>

\* hashlib.md5(), hashlib.sha1(), hashlib.sha256(): a fresh hash object.
\* The digest functions are stand-ins with one-byte states: what is kept of
\* hashlib is that a digest is a function of the algorithm and of the bytes
\* fed, in order, and that hexdigest() is lowercase hexadecimal.
hash_new(alg) ==
    CASE alg = "md5" -> 1 [] alg = "sha1" -> 2 [] OTHER -> 3

hash_mult(alg) ==
    CASE alg = "md5" -> 3 [] alg = "sha1" -> 5 [] OTHER -> 7

\* hash_obj.update(chunk)
RECURSIVE hash_update(_, _, _)
hash_update(alg, acc, chunk) ==
    IF chunk = <<>> THEN acc
    ELSE hash_update(alg, (acc * hash_mult(alg) + Head(chunk) + 1) % 256, Tail(chunk))

\* hash_obj.hexdigest()
hexdigest(acc) == <<HexDigits[(acc \div 16) + 1], HexDigits[(acc % 16) + 1]>>

\* str.lower() and str.upper() on a string of hexadecimal digits
lower_char(c) ==
    CASE c = "A" -> "a" [] c = "B" -> "b" [] c = "C" -> "c"
      [] c = "D" -> "d" [] c = "E" -> "e" [] c = "F" -> "f" [] OTHER -> c
upper_char(c) ==
    CASE c = "a" -> "A" [] c = "b" -> "B" [] c = "c" -> "C"
      [] c = "d" -> "D" [] c = "e" -> "E" [] c = "f" -> "F" [] OTHER -> c
lower(str) == [k \in DOMAIN str |-> lower_char(str[k])]
upper(str) == [k \in DOMAIN str |-> upper_char(str[k])]

EmptyMap == <<>>

\* what a call hands back to its caller: the returned mapping, whether an
\* exception left the call, the number of read() calls made on the file, and
\* the progress_callback invocations
Outcome(result, raised, reads, progress) ==
    [result |-> result, raised |-> raised, reads |-> reads, progress |-> progress]

\* lines 24-30 keeping every requested name
filter_algorithms_none(algorithms) == algorithms

\* lines 24-30: the supported names of the request, in request order
filter_algorithms(algorithms) ==
    SelectSeq(algorithms, LAMBDA alg : alg \in Supported)

\* the except clauses of lines 82-94 returning what was computed so far
except_partial(objs, reads, progress) ==
    Outcome([alg \in DOMAIN objs |-> hexdigest(objs[alg])], FALSE, reads, progress)

\* lines 82-94: PermissionError and every other exception give {}
except_empty(objs, reads, progress) ==
    Outcome(EmptyMap, FALSE, reads, progress)

\* lines 58-80: the chunk loop and the digests
RECURSIVE read_loop(_, _, _, _, _, _, _)
read_loop(content, off, objs, reads, progress, fail_at, cb) ==
    IF fail_at = reads + 1
    THEN except_empty(objs, reads + 1, progress)
    ELSE LET last == IF off + MaxChunk < Len(content) THEN off + MaxChunk ELSE Len(content)
             chunk == SubSeq(content, off + 1, last)
         IN IF chunk = <<>>
            THEN Outcome([alg \in DOMAIN objs |-> hexdigest(objs[alg])],
                         FALSE, reads + 1, progress)
            ELSE read_loop(content, last,
                           [alg \in DOMAIN objs |-> hash_update(alg, objs[alg], chunk)],
                           reads + 1,
                           IF cb /\ Len(content) > 0
                           THEN Append(progress, <<last, Len(content)>>)
                           ELSE progress,
                           fail_at, cb)

\* calculate_file_hashes, lines 15-94. given: an algorithm list was passed
calculate_file_hashes(f, given, algs, fail_at, cb) ==
    LET algorithms == filter_algorithms(IF given THEN algs ELSE supported_algorithms)
    IN IF algorithms = <<>>
       THEN Outcome(EmptyMap, FALSE, 0, <<>>)
       ELSE IF f.state = "missing"
       THEN Outcome(EmptyMap, FALSE, 0, <<>>)
       ELSE LET hash_objects ==
                    [alg \in {a \in Supported : \E k \in DOMAIN algorithms : algorithms[k] = a}
                        |-> hash_new(alg)]
            IN IF f.state = "denied"
               THEN except_empty(hash_objects, 0, <<>>)
               ELSE read_loop(f.content, 0, hash_objects, 0, <<>>, fail_at, cb)

\* line 112 without the two lower() calls
hashes_match_exact(actual_hash, expected_hash) == actual_hash = expected_hash

\* line 112: the case-insensitive comparison
hashes_match(actual_hash, expected_hash) == lower(actual_hash) = lower(expected_hash)

\* verify_file_hash, lines 96-126
verify_file_hash(f, expected_hash, algorithm, fail_at) ==
    IF algorithm \notin Supported
    THEN FALSE
    ELSE LET calculated == calculate_file_hashes(f, TRUE, <<algorithm>>, fail_at, FALSE).result
         IN IF calculated = EmptyMap
            THEN FALSE
            ELSE hashes_match(IF algorithm \in DOMAIN calculated
                              THEN calculated[algorithm] ELSE <<>>,
                              expected_hash)

\* the digests of the files of the model, as they are and in upper case, and
\* the empty string: the expected digests a caller passes to verify_file_hash
Expecteds ==
    LET ds == {hexdigest(hash_update(alg, hash_new(alg), c)) :
                  alg \in Supported, c \in Contents}
    IN ds \cup {upper(d) : d \in ds} \cup {<<>>}

NoCall ==
    [op |-> "none", file |-> [state |-> "missing", content |-> <<>>],
     given |-> FALSE, algs |-> <<>>, cb |-> FALSE, expected |-> <<>>,
     alg |-> "", fail_at |-> 0, out |-> Outcome(EmptyMap, FALSE, 0, <<>>),
     ok |-> FALSE]

\* HashCalculator(): no call made, no file at the path
HashInit ==
    /\ hfile = [state |-> "missing", content |-> <<>>]
    /\ hcall = NoCall

\* ------------------------------------------------- _compress_evidence
\* st_size of a file of the output tree
FileSizes == 0..(MaxFileGiB * UnitsPerGiB)

\* where the call raises: nowhere, in stat() (192), in ZipFile() (232),
\* or in zipf.write() (234)
ZipFailPoints == {"none", "stat", "open", "write"}

RECURSIVE sum_sizes(_)
\* lines 187-198: total_size += file_size for every file of the walk
sum_sizes(tree) ==
    IF tree = <<>> THEN 0 ELSE tree[1] + sum_sizes(Tail(tree))

\* line 204 and the comparisons of 207 and 213: total_size / (1024**3) > n.
\* The division by a power of two is exact, so the comparison is one of
\* byte counts.
gb_exceeds(total_size, n) == total_size > n * UnitsPerGiB

\* the selection with the two upper tiers exchanged
compress_level_swapped(total_size) ==
    IF gb_exceeds(total_size, 10) THEN 3
    ELSE IF gb_exceeds(total_size, 5) THEN 1
    ELSE 6

\* lines 207-224: the compresslevel handed to ZipFile
compress_level(total_size) ==
    IF gb_exceeds(total_size, 10) THEN 1
    ELSE IF gb_exceeds(total_size, 5) THEN 3
    ELSE 6

\* lines 207-224: the log line that goes with the level
level_log(total_size) ==
    IF gb_exceeds(total_size, 10)
    THEN LogEv("Large package detected, using fast compression...", "INFO")
    ELSE IF gb_exceeds(total_size, 5)
    THEN LogEv("Compressing files with balanced compression...", "INFO")
    ELSE LogEv("Compressing files...", "INFO")

\* what one call of _compress_evidence did: the manifest it built, the level
\* it chose (0: none), the archive ("none", "partial": opened and left
\* incomplete, "written") and the log_message signals it emitted
ZipOutcome(total, count, level, archive, logs) ==
    [total |-> total, count |-> count, level |-> level, archive |-> archive, logs |-> logs]

ZipFailed == LogEv("Compression failed: e", "ERROR")

\* an empty manifest reported as a failure of the compression
empty_manifest_error(logs) ==
    ZipOutcome(0, 0, 6, "partial", Append(logs, ZipFailed))

\* lines 200-202: nothing to compress
empty_manifest(logs) ==
    ZipOutcome(0, 0, 0, "none", Append(logs, LogEv("No files to compress", "WARNING")))

\* CollectionThread._compress_evidence, lines 175-287. The progress lines
\* that depend on the wall clock (241, first disjunct) are left out; the one
\* of the final file is always emitted.
zip_evidence(tree, enabled, fail) ==
    LET prep  == <<LogEv("Preparing to compress evidence package...", "INFO")>>
        total == sum_sizes(tree)
        count == Len(tree)
        level == compress_level(total)
        chose == Append(prep, level_log(total))
    IN  IF ~enabled
        THEN ZipOutcome(0, 0, 0, "none", <<LogEv("Compression disabled", "INFO")>>)
        ELSE IF tree # <<>> /\ fail = "stat"
        THEN ZipOutcome(0, 0, 0, "none", Append(prep, ZipFailed))
        ELSE IF tree = <<>>
        THEN empty_manifest(prep)
        ELSE IF fail = "open"
        THEN ZipOutcome(total, count, level, "none", Append(chose, ZipFailed))
        \* line 239 divides by total_size: ZeroDivisionError for a tree of
        \* empty files, after the first zipf.write
        ELSE IF fail = "write" \/ total = 0
        THEN ZipOutcome(total, count, level, "partial", Append(chose, ZipFailed))
        ELSE ZipOutcome(total, count, level, "written",
                        chose \o <<LogEv("Compressing: progress", "INFO"),
                                   LogEv("Compression completed", "SUCCESS"),
                                   LogEv("Original -> Compressed", "SUCCESS"),
                                   LogEv("Archive", "SUCCESS")>>)

NoZipCall ==
    [op |-> "none", enabled |-> FALSE, fail |-> "none", failed |-> <<>>,
     out |-> ZipOutcome(0, 0, 0, "none", <<>>), final |-> <<>>]

\* no output tree yet, no call
ZipInit ==
    /\ ztree = <<>>
    /\ zcall = NoZipCall

\* ------------------------------------------------------- PrivilegeManager
\* check_required_privileges, lines 77-86: module name -> required level
privilege_requirements ==
    [id \in {"memory", "disk", "network", "filesystem", "registry",
             "live_system", "browser", "event_logs"} |->
       IF id \in {"memory", "disk", "registry", "event_logs"} THEN "admin" ELSE "user"]

\* names passed to check_required_privileges: the registered module ids, the
\* keys of its own table and a name nobody knows
CheckedIds == module_map \cup DOMAIN privilege_requirements \cup {"unknown_module"}

\* ui/module_info.py: the ids of the module cards of the main window
CardIds ==
    {"memory", "disk", "network", "filesystem", "registry", "live_system",
     "browser", "eventlogs"}

\* registered ids whose initialize() returns False when IsUserAnAdmin() is 0
\* (memory_module 28, disk_module 28, registry_module 46, eventlogs_module 37)
AdminOnlyModules == {"memory", "disk", "registry", "eventlogs"}

\* is_admin asking the operating system on every call
is_admin_uncached(cache, os, raises) ==
    IF raises THEN "False" ELSE os

\* PrivilegeManager.is_admin, lines 13-34: the value returned, which is also
\* the value of _is_admin afterwards. raises: IsUserAnAdmin or the logger
\* raises inside the try block.
is_admin(cache, os, raises) ==
    IF cache # "None" THEN cache
    ELSE IF raises THEN "False"
    ELSE os

\* line 93: is_admin() is called for the names of level "admin" only
asks_admin(module_name) ==
    /\ module_name \in DOMAIN privilege_requirements
    /\ privilege_requirements[module_name] = "admin"

\* PrivilegeManager.check_required_privileges, lines 76-96; admin is the
\* value is_admin() returns if it is called
check_required_privileges(module_name, admin) ==
    IF module_name \notin DOMAIN privilege_requirements
    THEN [has |-> TRUE, msg |-> "Unknown module, assuming no special privileges needed"]
    ELSE IF privilege_requirements[module_name] = "admin" /\ admin # "True"
    THEN [has |-> FALSE, msg |-> "requires administrator privileges"]
    ELSE [has |-> TRUE, msg |-> "Sufficient privileges"]

NoPrivCall == [op |-> "none", id |-> "", has |-> FALSE, msg |-> ""]

\* ui/module_info.py: ModuleRegistry.get_default_enabled_modules()
DefaultEnabled == CardIds \ {"disk"}

\* PrivilegeManager.__init__ (line 11) in a process of a limited user; the
\* cards of a window are enabled when they are made
PrivInit ==
    /\ os_admin = "False"
    /\ pm_is_admin = "None"
    /\ pm_answers = {}
    /\ pcall = NoPrivCall
    /\ cards = [id \in CardIds |-> TRUE]
    /\ win_checked = FALSE
    /\ selected_modules = DefaultEnabled

\* ---------------------------------------------------------- ConfigManager
\* top-level keys and second-level keys of the configuration, the values a
\* caller sets (strings here, as the settings dialog sets), profile names
TopKeys == {"output_directory", "compression"}
SubKeys == {"format"}
Values == {"v1", "v2"}
ProfileNames == {"P", "Q"}

\* an entry of the top-level dict: no key, a value, or a dict of its own
NoSub == [k \in SubKeys |-> "-"]
Absent == [kind |-> "absent", v |-> "-", d |-> NoSub]
Leaf(v) == [kind |-> "leaf", v |-> v, d |-> NoSub]
Dict(d) == [kind |-> "dict", v |-> "-", d |-> d]

\* key paths "a" and "a.b", split at the dots
KeyPaths == {<<t>> : t \in TopKeys} \cup {<<t, k>> : t \in TopKeys, k \in SubKeys}

\* _get_default_config, cut down to one value; the other key is one the
\* defaults do not have
DefaultConfig ==
    [t \in TopKeys |-> IF t = "output_directory" THEN Leaf("v1") ELSE Absent]

\* ConfigManager.get, lines 139-149, with default None (Absent)
get(cfg, keys) ==
    LET e == cfg[keys[1]]
    IN  IF e.kind = "absent" THEN Absent
        ELSE IF Len(keys) = 1 THEN e
        ELSE IF e.kind = "dict" /\ e.d[keys[2]] # "-" THEN Leaf(e.d[keys[2]])
        ELSE Absent

\* ConfigManager.set, lines 151-160: the config afterwards. Indexing a
\* string value with a key raises TypeError at line 160 and the config stays.
set(cfg, keys, value) ==
    LET e == cfg[keys[1]]
    IN  IF Len(keys) = 1 THEN [cfg EXCEPT ![keys[1]] = Leaf(value)]
        ELSE IF e.kind = "absent"
        THEN [cfg EXCEPT ![keys[1]] = Dict([NoSub EXCEPT ![keys[2]] = value])]
        ELSE IF e.kind = "dict"
        THEN [cfg EXCEPT ![keys[1]] = Dict([e.d EXCEPT ![keys[2]] = value])]
        ELSE cfg

\* json.dump of the profiles dict (lines 187-188, 251-252): the document as
\* its members, <<profile name, key path, value>>, an object written as "{}"
json_dump_config(name, cfg) ==
    {<<name, <<>>, "{}">>}
      \cup {<<name, <<t>>, cfg[t].v>> : t \in {u \in TopKeys : cfg[u].kind = "leaf"}}
      \cup {<<name, <<t>>, "{}">> : t \in {u \in TopKeys : cfg[u].kind = "dict"}}
      \cup {<<name, <<p[1], p[2]>>, cfg[p[1]].d[p[2]]>> :
               p \in {q \in TopKeys \X SubKeys :
                         cfg[q[1]].kind = "dict" /\ cfg[q[1]].d[q[2]] # "-"}}

\* json.load (line 276): the names of the document, and the config of one
json_names(doc) == {m[1] : m \in doc}

json_load_config(doc, name) ==
    [t \in TopKeys |->
       IF <<name, <<t>>, "{}">> \in doc
       THEN Dict([k \in SubKeys |->
                    IF \E v \in Values : <<name, <<t, k>>, v>> \in doc
                    THEN CHOOSE v \in Values : <<name, <<t, k>>, v>> \in doc
                    ELSE "-"])
       ELSE IF \E v \in Values : <<name, <<t>>, v>> \in doc
       THEN Leaf(CHOOSE v \in Values : <<name, <<t>>, v>> \in doc)
       ELSE Absent]

NoFile == [state |-> "missing", doc |-> {}]
BadFile == [state |-> "corrupt", doc |-> {}]
GoodFile(doc) == [state |-> "ok", doc |-> doc]

\* _load_profiles, lines 270-278: a missing or unparseable file reads as {}
load_profiles(file) == IF file.state = "ok" THEN file.doc ELSE {}

\* the document without the members of one profile
without(doc, name) == {m \in doc : m[1] # name}

\* list_profiles, lines 231-242: the names listed
list_profiles(file) == json_names(load_profiles(file))

\* open(profiles_file, 'w') with json.dump: written, or open raises and the
\* file stays, or the dump is cut short and leaves a file that does not parse
WriteOutcomes == {"ok", "open_fails", "dump_fails"}

write_profiles(file, doc, w) ==
    CASE w = "ok"         -> GoodFile(doc)
      [] w = "open_fails" -> file
      [] w = "dump_fails" -> BadFile

\* load_profile that keeps the current configuration
load_profile_config_kept(cfg, file, name) == cfg

\* load_profile, lines 204-229: the config afterwards
load_profile_config(cfg, file, name) ==
    IF name \in json_names(load_profiles(file))
    THEN json_load_config(load_profiles(file), name)
    ELSE cfg

NoSnap == [saved |-> FALSE, config |-> DefaultConfig]
NoCfgCall == [op |-> "none", name |-> "", ret |-> FALSE, before |-> DefaultConfig]

\* ConfigManager.__init__, lines 12-20, in a fresh config directory
ConfigInit ==
    /\ config = DefaultConfig
    /\ profiles_file = NoFile
    /\ ccall = NoCfgCall
    /\ snap = [n \in ProfileNames |-> NoSnap]
    /\ deleted = {}

\* ------------------------------------------------------ collection modules
\* ICollectionModule.__init__ (base_module.py 15-19)
NewModule(id) ==
    [id |-> id, status |-> "INITIALIZED", progress |-> 0, error_message |-> "None"]

\* modules whose execute() has a `return False` inside the try block:
\* memory_module.py 64-65 (no memory image), eventlogs_module.py 71-76 (no
\* logs directory)
EarlyReturn == {"memory", "eventlogs"}

\* how initialize() ends: at its `return True`, in its except block, or at
\* the administrator test of the modules that have one
InitializeEnds(id) ==
    {"ok", "raise"} \cup (IF id \in AdminOnlyModules THEN {"not_admin"} ELSE {})

\* the values execute() assigns to self.progress before the last one, per
\* module class (browser: three browsers, 80 // 3 each)
ProgressSteps(id) ==
    CASE id = "memory"      -> {0, 10, 70, 85}
      [] id = "eventlogs"   -> {0, 40, 70, 85}
      [] id = "disk"        -> {0, 10, 50, 80, 90}
      [] id = "registry"    -> {0, 30, 50, 70, 85}
      [] id = "network"     -> {0, 5, 20, 35, 50, 65, 75, 80, 90}
      [] id = "filesystem"  -> {0, 20, 40, 60, 80}
      [] id = "live_system" -> {0, 15, 30, 45, 60, 75, 90}
      [] id = "browser"     -> {0, 26, 52, 78}

\* how execute() ends, and with what progress: at its `return True`, in its
\* except block after any step, or at the early `return False` (memory:
\* after progress = 10, line 60; event logs: before the first step)
ExecuteEnds(id) ==
    {<<"ok", 100>>}
      \cup {<<"raise", p>> : p \in ProgressSteps(id)}
      \cup (IF id \in EarlyReturn
            THEN {<<"early", IF id = "memory" THEN 10 ELSE 0>>}
            ELSE {})

\* initialize() of a module class (e.g. memory_module.py 24-51): the object
\* afterwards
module_initialize(m, end) ==
    CASE end = "ok"        -> [m EXCEPT !.status = "INITIALIZED"]
      [] end = "not_admin" -> [m EXCEPT !.status = "FAILED",
                                        !.error_message = "Administrator privileges required"]
      [] end = "raise"     -> [m EXCEPT !.status = "FAILED", !.error_message = "e"]

\* execute() of a module class (e.g. memory_module.py 53-84): the object
\* afterwards
module_execute(m, end) ==
    CASE end[1] = "ok"    -> [m EXCEPT !.status = "COMPLETED", !.progress = end[2]]
      [] end[1] = "early" -> [m EXCEPT !.status = "RUNNING", !.progress = end[2]]
      [] end[1] = "raise" -> [m EXCEPT !.status = "FAILED", !.progress = end[2],
                                       !.error_message = "e"]

NoModule == [id |-> "", status |-> "", progress |-> 0, error_message |-> "None"]
NoModCall == [method |-> "none", ret |-> FALSE, end |-> ""]

\* no module object yet
ModuleInit ==
    /\ minst = NoModule
    /\ mcall = NoModCall

\* ----------------------------------------------------------- NetworkModule
\* execute line 98: capture_thread.join(timeout=self.capture_duration + 10)
JoinSlack == 10
\* _start_packet_capture line 217: subprocess.run(..., timeout=self.capture_duration + 30)
RunSlack == 30
\* the last second of the model's clock: every capture thread has ended
MaxNetTime == MaxDuration + RunSlack

\* files the collectors append (connections.txt, ...), and the capture file
NetFiles == <<"connections.txt", "arp_cache.txt">>
CaptureFile == "network_traffic.pcapng"

\* NetworkModule.__init__, lines 15-27
NetInit ==
    /\ net_pc = "idle"
    /\ cap_pc = "none"
    /\ net_now = 0
    /\ cap_end = 0
    /\ cap_ok = FALSE
    /\ capture_duration = 0
    /\ join_deadline = 0
    /\ collected_files = <<>>
    /\ hash_pos = 0
    /\ net_rows = <<>>

\* ------------------------------------------------------------------ Init
\* EvidenceController.__init__, no CollectionThread yet
OrchInit ==
    /\ is_running = FALSE
    /\ collection_thread = "None"
    /\ modules = <<>>
    /\ compression = FALSE
    /\ should_stop = FALSE
    /\ wpc = "idle"
    /\ i = 0
    /\ completed = 0
    /\ failed_modules = <<>>
    /\ success = FALSE
    /\ events = <<>>
    /\ calls = <<>>
    /\ ctl_pc = "idle"
    /\ ret = "none"
    /\ stop_k = 0

Init == OrchInit /\ LoggerInit /\ HashInit /\ ZipInit /\ PrivInit /\ ConfigInit /\ ModuleInit /\ NetInit

\* ------------------------------------------------------ control context
\* _create_module: None for an id outside module_map or when the constructor raises
create_module(id, broken) == id \in module_map /\ id \notin broken

\* _load_modules inserting each created module at the front
RECURSIVE load_modules_prepend(_, _)
load_modules_prepend(module_ids, broken) ==
    IF module_ids = <<>> THEN <<>>
    ELSE LET rest == load_modules_prepend(Tail(module_ids), broken)
         IN IF create_module(Head(module_ids), broken)
            THEN rest \o <<Head(module_ids)>>
            ELSE rest

\* _load_modules giving up at the first id it cannot create
RECURSIVE load_modules_abort(_, _)
load_modules_abort(module_ids, broken) ==
    IF module_ids = <<>> THEN <<>>
    ELSE IF create_module(Head(module_ids), broken)
         THEN <<Head(module_ids)>> \o load_modules_abort(Tail(module_ids), broken)
         ELSE <<>>

\* _load_modules: the created modules, in request order
RECURSIVE load_modules(_, _)
load_modules(module_ids, broken) ==
    IF module_ids = <<>> THEN <<>>
    ELSE LET rest == load_modules(Tail(module_ids), broken)
         IN IF create_module(Head(module_ids), broken)
            THEN <<Head(module_ids)>> \o rest
            ELSE rest

\* start_collection, lines 305-307: the branch taken while is_running
start_rejected ==
    /\ ret' = "False"
    /\ UNCHANGED <<loggerVars, hashVars, auxVars>>
    /\ UNCHANGED <<is_running, collection_thread, ctl_pc>>
    /\ UNCHANGED <<modules, compression, should_stop, events, stop_k>>
    /\ UNCHANGED workerLocals

\* start_collection, lines 316-331: a new CollectionThread is built and started
start_accepted(mods, enabled) ==
    /\ collection_thread' = "thread"
    /\ modules' = mods
    /\ compression' = enabled
    /\ should_stop' = FALSE
    /\ events' = <<>>
    /\ calls' = [j \in 1..Len(mods) |-> NoCalls]
    /\ wpc' = "setup"
    /\ i' = 0
    /\ completed' = 0
    /\ failed_modules' = <<>>
    /\ success' = FALSE
    /\ stop_k' = 0
    /\ is_running' = TRUE
    /\ ret' = "True"
    /\ UNCHANGED ctl_pc
    /\ UNCHANGED <<loggerVars, hashVars, auxVars>>

\* start_collection without the is_running test of line 305
start_collection_unguarded(module_ids, broken, enabled) ==
    /\ ctl_pc = "idle"
    /\ LET mods == load_modules(module_ids, broken)
       IN IF mods = <<>>
          THEN start_rejected
          ELSE start_accepted(mods, enabled)

\* start_collection without the `if not modules` test of line 312
start_collection_unchecked(module_ids, broken, enabled) ==
    /\ ctl_pc = "idle"
    /\ IF is_running
       THEN start_rejected
       ELSE start_accepted(load_modules(module_ids, broken), enabled)

start_collection(module_ids, broken, enabled) ==
    /\ ctl_pc = "idle"
    /\ IF is_running
       THEN start_rejected
       ELSE LET mods == load_modules(module_ids, broken)
            IN IF mods = <<>>
               THEN start_rejected
               ELSE start_accepted(mods, enabled)

\* the first module boundary check the worker has not yet performed
NextBoundary ==
    CASE wpc = "setup" -> 1
      [] wpc = "loop" -> i
      [] wpc \in {"initialize", "execute", "cleanup"} -> i + 1
      [] OTHER -> Len(modules) + 1

\* stop_collection line 338-339 and CollectionThread.stop line 115
stop_set_flag ==
    /\ ctl_pc = "idle"
    /\ collection_thread # "None" /\ is_running
    /\ should_stop' = TRUE
    /\ stop_k' = NextBoundary
    /\ ctl_pc' = "stop_emit"
    /\ ret' = "none"
    /\ UNCHANGED <<is_running, collection_thread>>
    /\ UNCHANGED <<modules, compression, events>>
    /\ UNCHANGED workerLocals
    /\ UNCHANGED <<loggerVars, hashVars, auxVars>>

\* CollectionThread.stop line 116
stop_emit_log ==
    /\ ctl_pc = "stop_emit"
    /\ events' = Append(events, LogEv("Stop requested...", "WARNING"))
    /\ ctl_pc' = "wait"
    /\ UNCHANGED <<is_running, collection_thread, ret>>
    /\ UNCHANGED <<modules, compression, should_stop, stop_k>>
    /\ UNCHANGED workerLocals
    /\ UNCHANGED <<loggerVars, hashVars, auxVars>>

\* stop_collection lines 340-342: wait() returns once run() has returned
stop_wait_return ==
    /\ ctl_pc = "wait"
    /\ wpc = "done"
    /\ is_running' = FALSE
    /\ ctl_pc' = "idle"
    /\ UNCHANGED <<collection_thread, ret>>
    /\ UNCHANGED <<modules, compression, should_stop, events, stop_k>>
    /\ UNCHANGED workerLocals
    /\ UNCHANGED <<loggerVars, hashVars, auxVars>>

\* --------------------------------------------------------------- worker
workerFrame == UNCHANGED <<ctlVars, modules, compression, should_stop, stop_k, loggerVars, hashVars, auxVars>>

\* the handler without its collection_completed.emit of line 112
ExceptHandler_silent(evs) ==
    evs \o <<LogEv(MsgFailed, "ERROR")>>

\* run lines 108-112: the top-level handler
ExceptHandler(evs) ==
    evs \o <<LogEv(MsgFailed, "ERROR"), DoneEv(FALSE, MsgFailed, 0)>>

\* run lines 36-45; mkdir may raise
run_setup ==
    /\ wpc = "setup"
    /\ \E raised \in BOOLEAN :
         IF raised
         THEN /\ events' = ExceptHandler(
                    Append(events, LogEv("Initializing collection environment...", "INFO")))
              /\ wpc' = "done"
              /\ UNCHANGED <<i, completed, failed_modules>>
         ELSE /\ events' = events \o
                    <<LogEv("Initializing collection environment...", "INFO"),
                      LogEv("Output directory", "INFO")>>
              /\ wpc' = "loop"
              /\ i' = 1
              /\ completed' = 0
              /\ failed_modules' = <<>>
    /\ UNCHANGED <<success, calls>>
    /\ workerFrame

\* run lines 48-51: the cancellation branch
StopBranch ==
    /\ events' = events \o
          <<LogEv("Collection stopped by user", "WARNING"), DoneEv(FALSE, MsgStopped, 0)>>
    /\ wpc' = "done"

\* run lines 53-60
BeginModule ==
    /\ events' = events \o
          <<LogEvFor("Starting module", "INFO", ModuleName(modules[i])),
            StartedEv(modules[i])>>
    /\ wpc' = "initialize"

\* the loop without the should_stop test of line 48
run_loop_unchecked ==
    /\ wpc = "loop"
    /\ IF i > Len(modules)
       THEN /\ wpc' = "report"
            /\ UNCHANGED events
       ELSE BeginModule
    /\ UNCHANGED <<i, completed, failed_modules, success, calls>>
    /\ workerFrame

\* run checking the flag once more when the loop is over
run_loop_checked_at_end ==
    /\ wpc = "loop"
    /\ IF should_stop
       THEN StopBranch
       ELSE IF i > Len(modules)
       THEN /\ wpc' = "report"
            /\ UNCHANGED events
       ELSE BeginModule
    /\ UNCHANGED <<i, completed, failed_modules, success, calls>>
    /\ workerFrame

\* run lines 47-60: loop header, cancellation check, module start
run_loop ==
    /\ wpc = "loop"
    /\ IF i > Len(modules)
       THEN /\ wpc' = "report"
            /\ UNCHANGED events
       ELSE IF should_stop THEN StopBranch ELSE BeginModule
    /\ UNCHANGED <<i, completed, failed_modules, success, calls>>
    /\ workerFrame

\* initialize() returning False ends the loop (break instead of continue)
InitFailed_break ==
    /\ events' = events \o
          <<LogEvFor("Failed to initialize module", "ERROR", ModuleName(modules[i])),
            ModDoneEv(modules[i], FALSE)>>
    /\ failed_modules' = Append(failed_modules, ModuleName(modules[i]))
    /\ i' = Len(modules) + 1
    /\ wpc' = "loop"

\* run lines 64-70: initialize() returned False
InitFailed ==
    /\ events' = events \o
          <<LogEvFor("Failed to initialize module", "ERROR", ModuleName(modules[i])),
            ModDoneEv(modules[i], FALSE)>>
    /\ failed_modules' = Append(failed_modules, ModuleName(modules[i]))
    /\ i' = i + 1
    /\ wpc' = "loop"

\* run line 63: module.initialize()
run_initialize ==
    /\ wpc = "initialize"
    /\ \E r \in {"True", "False", "raise"} :
         /\ calls' = [calls EXCEPT ![i].init = r]
         /\ CASE r = "True"  -> /\ wpc' = "execute"
                                /\ UNCHANGED <<events, failed_modules, i>>
              [] r = "False" -> InitFailed
              [] r = "raise" -> /\ events' = ExceptHandler(events)
                                /\ wpc' = "done"
                                /\ UNCHANGED <<failed_modules, i>>
    /\ UNCHANGED <<completed, success>>
    /\ workerFrame

\* run lines 74-79
ExecSucceeded ==
    /\ events' = Append(events,
          LogEvFor("Module completed successfully", "SUCCESS", ModuleName(modules[i])))
    /\ completed' = completed + 1
    /\ UNCHANGED failed_modules

\* run lines 80-85
ExecFailed ==
    /\ events' = Append(events,
          LogEvFor("Module failed", "ERROR", ModuleName(modules[i])))
    /\ failed_modules' = Append(failed_modules, ModuleName(modules[i]))
    /\ UNCHANGED completed

\* run lines 72-85: module.execute() and the tally
run_execute ==
    /\ wpc = "execute"
    /\ \E r \in {"True", "False", "raise"} :
         /\ calls' = [calls EXCEPT ![i].exec = r]
         /\ CASE r = "True"  -> /\ ExecSucceeded
                                /\ success' = TRUE
                                /\ wpc' = "cleanup"
              [] r = "False" -> /\ ExecFailed
                                /\ success' = FALSE
                                /\ wpc' = "cleanup"
              [] r = "raise" -> /\ events' = ExceptHandler(events)
                                /\ wpc' = "done"
                                /\ UNCHANGED <<completed, failed_modules, success>>
    /\ UNCHANGED i
    /\ workerFrame

\* run lines 89-90
EndModule ==
    /\ events' = events \o
          <<ModDoneEv(modules[i], success), ProgressEv(i, Len(modules))>>
    /\ i' = i + 1
    /\ wpc' = "loop"

\* run lines 87-90: module.cleanup(), then the per-module events
run_cleanup ==
    /\ wpc = "cleanup"
    /\ \E r \in {"ok", "raise"} :
         /\ calls' = [calls EXCEPT ![i].cleanup = r]
         /\ IF r = "ok"
            THEN EndModule
            ELSE /\ events' = ExceptHandler(events)
                 /\ wpc' = "done"
                 /\ UNCHANGED i
    /\ UNCHANGED <<completed, failed_modules, success>>
    /\ workerFrame

\* _generate_report letting an exception of the generator reach run's handler
generate_report_fatal(evs, r) ==
    IF r = "raise"
    THEN ExceptHandler(Append(evs, LogEv("Generating collection report...", "INFO")))
    ELSE Append(evs, LogEv("Generating collection report...", "INFO")) \o
           CASE r = "ok"           -> <<LogEv("Report generated", "SUCCESS")>>
             [] r = "missing"      -> <<LogEv("Failed to generate report", "ERROR")>>
             [] r = "import_error" -> <<LogEv("Failed to import ReportGenerator: e", "ERROR")>>

\* _generate_report lines 118-173: every exception is caught inside
generate_report(evs, r) ==
    Append(evs, LogEv("Generating collection report...", "INFO")) \o
      CASE r = "ok"           -> <<LogEv("Report generated", "SUCCESS")>>
        [] r = "missing"      -> <<LogEv("Failed to generate report", "ERROR")>>
        [] r = "import_error" -> <<LogEv("Failed to import ReportGenerator: e", "ERROR")>>
        [] r = "raise"        -> <<LogEv("Failed to generate report: e", "ERROR")>>

\* run lines 92-95
run_report ==
    /\ wpc = "report"
    /\ \E r \in {"ok", "missing", "import_error", "raise"} :
         events' = generate_report(
                      Append(events, LogEv("Generating collection report...", "INFO")), r)
    /\ wpc' = IF compression THEN "compress" ELSE "finish"
    /\ UNCHANGED <<i, completed, failed_modules, success, calls>>
    /\ workerFrame

\* _compress_evidence lines 175-287: every exception is caught inside
compress_evidence(evs, r) ==
    Append(evs, LogEv("Preparing to compress evidence package...", "INFO")) \o
      CASE r = "ok"    -> <<LogEv("Compressing files", "INFO"),
                            LogEv("Compression completed", "SUCCESS"),
                            LogEv("Archive", "SUCCESS")>>
        [] r = "empty" -> <<LogEv("No files to compress", "WARNING")>>
        [] r = "raise" -> <<LogEv("Compression failed: e", "ERROR")>>

\* run lines 95-97
run_compress ==
    /\ wpc = "compress"
    /\ \E r \in {"ok", "empty", "raise"} :
         events' = compress_evidence(
                      Append(events, LogEv("Compressing evidence package...", "INFO")), r)
    /\ wpc' = "finish"
    /\ UNCHANGED <<i, completed, failed_modules, success, calls>>
    /\ workerFrame

\* the terminal event that never mentions failures
FinalEvents_unqualified(failed) ==
    <<LogEv(MsgSuccess, "SUCCESS"), DoneEv(TRUE, MsgSuccess, 0)>>

\* run lines 99-106: the terminal event of a run that reached the end
FinalEvents(failed) ==
    IF failed # <<>>
    THEN <<LogEv(MsgPartial, "WARNING"), DoneEv(TRUE, MsgPartial, Len(failed))>>
    ELSE <<LogEv(MsgSuccess, "SUCCESS"), DoneEv(TRUE, MsgSuccess, 0)>>

run_finish ==
    /\ wpc = "finish"
    /\ events' = events \o FinalEvents(failed_modules)
    /\ wpc' = "done"
    /\ UNCHANGED <<i, completed, failed_modules, success, calls>>
    /\ workerFrame

\* ------------------------------------------------------------------ Next
\* While is_running, start_collection returns at line 307 before it reads an
\* argument: one argument tuple then stands for all of them.
\* Otherwise it reads them only through _load_modules (line 309) and
\* config["compression"]["enabled"] (line 320), and the flag only when a module
\* was loaded: argument tuples with the same StartOutcome make the same call.
StartOutcome(a) ==
    LET mods == load_modules(a[1], a[2])
    IN <<mods, mods # <<>> /\ a[3]>>

\* one argument tuple of every StartOutcome
IdleStartArgs ==
    LET all == ModuleIdLists \X (SUBSET MayBreak) \X BOOLEAN
    IN {CHOOSE a \in all : StartOutcome(a) = o : o \in {StartOutcome(b) : b \in all}}

StartArgs ==
    IF is_running
    THEN {<<(<<"network">>), {}, FALSE>>}
    ELSE IdleStartArgs

Control ==
    \/ \E a \in StartArgs : start_collection(a[1], a[2], a[3])
    \/ stop_set_flag
    \/ stop_emit_log
    \/ stop_wait_return

Worker ==
    \/ run_setup
    \/ run_loop
    \/ run_initialize
    \/ run_execute
    \/ run_cleanup
    \/ run_report
    \/ run_compress
    \/ run_finish

Next == Control \/ Worker

Spec == Init /\ [][Next]_vars

\* the worker thread, once started, keeps running until run() returns
FairSpec == Spec /\ WF_vars(Worker)

\* The partial-failure scenario of the testable properties: one request of three
\* registered ids, with and without compression.
ScenarioArgs == {<<(<<"network", "memory", "registry">>), {}, en>> : en \in BOOLEAN}

Control3 ==
    \/ \E a \in ScenarioArgs : start_collection(a[1], a[2], a[3])
    \/ stop_set_flag
    \/ stop_emit_log
    \/ stop_wait_return

Next3 == Control3 \/ Worker

Spec3 == Init /\ [][Next3]_vars

\* --------------------------------------------------------------- StartSpec
\* The controller driven by every request of the bound, against a worker whose
\* module calls and post-steps all succeed: start_collection reads is_running
\* and its arguments only, nothing a module's outcome influences.
Quiet ==
    /\ \A j \in DOMAIN calls :
          /\ calls[j].init \in {"none", "True"}
          /\ calls[j].exec \in {"none", "True"}
          /\ calls[j].cleanup \in {"none", "ok"}
    /\ \A k \in DOMAIN events :
          events[k].level # "ERROR" /\ events[k].text # "No files to compress"

QuietWorker == Worker /\ Quiet'

StartNext == Control \/ QuietWorker

StartSpec == Init /\ [][StartNext]_vars

\* -------------------------------------------------------------- LoggerSpec
loggerFrame == UNCHANGED <<orchVars, hashVars, auxVars>>

\* one second of wall-clock time passes
Tick ==
    /\ clock < MaxClock
    /\ clock' = clock + 1
    /\ UNCHANGED <<ledgers, text_logs, text_log_path, csv_log_path, csv_file,
                   handlers, log_ret>>
    /\ loggerFrame

\* LoggerService.close, lines 135-152
logger_close ==
    /\ csv_file' = NoPath
    /\ handlers' = {}
    /\ log_ret' = "None"
    /\ UNCHANGED <<clock, ledgers, text_logs, text_log_path, csv_log_path>>
    /\ loggerFrame

\* LoggerService.initialize, lines 49-91. outcome: everything works, or
\* mkdir (54), FileHandler (59) or open (69) raises
initialize(output_dir, outcome) ==
    LET stamp == <<output_dir, clock>>
    IN /\ CASE outcome = "mkdir" ->
                 /\ csv_file' = NoPath /\ handlers' = {}
                 /\ UNCHANGED <<ledgers, text_logs, text_log_path, csv_log_path>>
            [] outcome = "handler" ->
                 /\ csv_file' = NoPath /\ handlers' = {}
                 /\ text_log_path' = stamp
                 /\ UNCHANGED <<ledgers, text_logs, csv_log_path>>
            [] outcome = "open" ->
                 /\ csv_file' = NoPath /\ handlers' = {stamp}
                 /\ text_log_path' = stamp /\ text_logs' = text_logs \cup {stamp}
                 /\ csv_log_path' = stamp
                 /\ UNCHANGED ledgers
            [] outcome = "ok" ->
                 /\ handlers' = {stamp}
                 /\ text_log_path' = stamp /\ text_logs' = text_logs \cup {stamp}
                 /\ csv_log_path' = stamp
                 /\ csv_file' = stamp
                 /\ ledgers' = [ledgers EXCEPT ![stamp] = <<HeaderRow>>]
       /\ log_ret' = IF outcome = "ok" THEN "True" ELSE "False"
       /\ UNCHANGED clock
       /\ loggerFrame

\* LoggerService.log_collection, lines 93-118
log_collection ==
    /\ IF csv_file # NoPath
       THEN /\ Len(ledgers[csv_file]) <= MaxRows
            /\ ledgers' = [ledgers EXCEPT ![csv_file] = Append(@, CollectionRow)]
       ELSE UNCHANGED ledgers
    /\ log_ret' = "None"
    /\ UNCHANGED <<clock, text_logs, text_log_path, csv_log_path, csv_file, handlers>>
    /\ loggerFrame

InitializeOutcomes == {"ok", "mkdir", "handler", "open"}

LoggerNext ==
    \/ Tick
    \/ \E d \in Dirs, o \in InitializeOutcomes : initialize(d, o)
    \/ log_collection
    \/ logger_close

LoggerSpec == Init /\ [][LoggerNext]_vars

\* ---------------------------------------------------------------- HashSpec
hashFrame == UNCHANGED <<orchVars, loggerVars, auxVars>>

\* the file at the path is written, replaced, removed or locked by its owner
fs_change ==
    /\ hcall.op = "none"
    /\ \E f \in Files : hfile' = f
    /\ UNCHANGED hcall
    /\ hashFrame

\* a caller calls calculate_file_hashes(path, algorithms, progress_callback)
call_calculate ==
    /\ hcall.op = "none"
    /\ \E given \in BOOLEAN, cb \in BOOLEAN, fail_at \in FailPoints :
         \E algs \in (IF given THEN AlgLists ELSE {<<>>}) :
            hcall' = [NoCall EXCEPT
                        !.op = "calculate", !.file = hfile, !.given = given,
                        !.algs = algs, !.cb = cb, !.fail_at = fail_at,
                        !.out = calculate_file_hashes(hfile, given, algs, fail_at, cb)]
    /\ UNCHANGED hfile
    /\ hashFrame

\* a caller calls verify_file_hash(path, expected_hash, algorithm)
call_verify ==
    /\ hcall.op = "none"
    /\ \E expected \in Expecteds, alg \in AlgNames \cup Supported, fail_at \in FailPoints :
         hcall' = [NoCall EXCEPT
                     !.op = "verify", !.file = hfile, !.expected = expected,
                     !.alg = alg, !.fail_at = fail_at,
                     !.ok = verify_file_hash(hfile, expected, alg, fail_at)]
    /\ UNCHANGED hfile
    /\ hashFrame

\* the caller has taken the returned value
call_return ==
    /\ hcall.op # "none"
    /\ hcall' = NoCall
    /\ UNCHANGED hfile
    /\ hashFrame

HashNext == fs_change \/ call_calculate \/ call_verify \/ call_return

HashSpec == Init /\ [][HashNext]_vars

\* ------------------------------------------------------------ CompressSpec
zipFrame == UNCHANGED <<orchVars, loggerVars, hashVars, privVars, cfgVars, modVars, netVars>>

\* failed_modules of the loop that ran before the post-steps
FailedLists == {<<>>, <<"Memory Acquisition (Volatility Compatible)">>}

\* a module or the report generator leaves one more file under output_dir, or
\* the next collection is given an output_dir without files
tree_change ==
    /\ zcall.op = "none"
    /\ \/ /\ Len(ztree) < MaxTreeFiles
          /\ \E file_size \in FileSizes : ztree' = Append(ztree, file_size)
       \/ ztree' = <<>>
    /\ UNCHANGED zcall
    /\ zipFrame

\* run lines 95-106: the compression step, when configured, and the terminal
\* event of the run
run_tail ==
    /\ zcall.op = "none"
    /\ \E enabled \in BOOLEAN, failed \in FailedLists, fail \in ZipFailPoints :
         zcall' = [op |-> "run", enabled |-> enabled, fail |-> fail, failed |-> failed,
                   out |-> IF enabled
                           THEN zip_evidence(ztree, enabled, fail)
                           ELSE ZipOutcome(0, 0, 0, "none", <<>>),
                   final |-> FinalEvents(failed)]
    /\ UNCHANGED ztree
    /\ zipFrame

\* run has returned
run_return ==
    /\ zcall.op # "none"
    /\ zcall' = NoZipCall
    /\ UNCHANGED ztree
    /\ zipFrame

CompressNext == tree_change \/ run_tail \/ run_return

CompressSpec == Init /\ [][CompressNext]_vars

\* ----------------------------------------------------------- PrivilegeSpec
privFrame == UNCHANGED <<orchVars, loggerVars, hashVars, zipVars, cfgVars, modVars, netVars>>

\* the program is started, by an administrator or by a limited user:
\* MainWindow.__init__ makes its PrivilegeManager (line 29) and its cards
process_start ==
    /\ \E a \in {"True", "False"} : os_admin' = a
    /\ pm_is_admin' = "None"
    /\ pm_answers' = {}
    /\ pcall' = NoPrivCall
    /\ cards' = [id \in CardIds |-> TRUE]
    /\ win_checked' = FALSE
    /\ selected_modules' = DefaultEnabled
    /\ privFrame

\* a caller calls PrivilegeManager.is_admin()
call_is_admin ==
    /\ \E raises \in BOOLEAN :
         LET a == is_admin(pm_is_admin, os_admin, raises)
         IN  /\ pm_is_admin' = a
             /\ pm_answers' = pm_answers \cup {a}
             /\ pcall' = [NoPrivCall EXCEPT !.op = "is_admin", !.has = (a = "True")]
    /\ UNCHANGED <<os_admin, cards, win_checked, selected_modules>>
    /\ privFrame

\* a caller calls PrivilegeManager.check_required_privileges(module_name)
call_check_required_privileges ==
    /\ \E module_name \in CheckedIds, raises \in BOOLEAN :
         LET a == is_admin(pm_is_admin, os_admin, raises)
             r == check_required_privileges(module_name, a)
         IN  /\ pcall' = [op |-> "check", id |-> module_name, has |-> r.has, msg |-> r.msg]
             /\ IF asks_admin(module_name)
                THEN /\ pm_is_admin' = a
                     /\ pm_answers' = pm_answers \cup {a}
                ELSE UNCHANGED <<pm_is_admin, pm_answers>>
    /\ UNCHANGED <<os_admin, cards, win_checked, selected_modules>>
    /\ privFrame

\* MainWindow.check_privileges, lines 554-585: is_admin() for the status
\* label, then every card whose check fails is disabled
check_privileges ==
    /\ \E raises \in BOOLEAN :
         LET a == is_admin(pm_is_admin, os_admin, raises)
         IN  /\ pm_is_admin' = a
             /\ pm_answers' = pm_answers \cup {a}
             /\ cards' = [id \in CardIds |->
                            cards[id] /\ check_required_privileges(id, a).has]
    /\ win_checked' = TRUE
    /\ UNCHANGED <<os_admin, pcall, selected_modules>>
    /\ privFrame

\* MainWindow._on_module_toggled, lines 586-602: the user ticks or unticks
\* the checkbox of a card that is enabled
on_module_toggled ==
    /\ \E module_id \in CardIds, checked \in BOOLEAN :
         /\ cards[module_id]
         /\ selected_modules' = IF checked
                                THEN selected_modules \cup {module_id}
                                ELSE selected_modules \ {module_id}
    /\ UNCHANGED <<os_admin, pm_is_admin, pm_answers, pcall, cards, win_checked>>
    /\ privFrame

\* MainWindow._select_all_modules, lines 627-633
select_all_modules ==
    /\ selected_modules' = selected_modules \cup {id \in CardIds : cards[id]}
    /\ UNCHANGED <<os_admin, pm_is_admin, pm_answers, pcall, cards, win_checked>>
    /\ privFrame

\* MainWindow._deselect_all_modules, lines 635-640
deselect_all_modules ==
    /\ selected_modules' = {}
    /\ UNCHANGED <<os_admin, pm_is_admin, pm_answers, pcall, cards, win_checked>>
    /\ privFrame

PrivilegeNext ==
    \/ process_start
    \/ call_is_admin
    \/ call_check_required_privileges
    \/ check_privileges
    \/ on_module_toggled
    \/ select_all_modules
    \/ deselect_all_modules

PrivilegeSpec == Init /\ [][PrivilegeNext]_vars

\* -------------------------------------------------------------- ConfigSpec
cfgFrame == UNCHANGED <<orchVars, loggerVars, hashVars, zipVars, privVars, modVars, netVars>>

\* a caller calls set(key_path, value)
cfg_set ==
    /\ \E keys \in KeyPaths, value \in Values :
         config' = set(config, keys, value)
    /\ ccall' = [NoCfgCall EXCEPT !.op = "set"]
    /\ UNCHANGED <<profiles_file, snap, deleted>>
    /\ cfgFrame

\* reset_to_defaults, lines 280-282
cfg_reset_to_defaults ==
    /\ config' = DefaultConfig
    /\ ccall' = [NoCfgCall EXCEPT !.op = "reset"]
    /\ UNCHANGED <<profiles_file, snap, deleted>>
    /\ cfgFrame

\* save_profile, lines 178-202
cfg_save_profile ==
    /\ \E name \in ProfileNames, w \in WriteOutcomes :
         LET doc == without(load_profiles(profiles_file), name)
                       \cup json_dump_config(name, config)
         IN  /\ profiles_file' = write_profiles(profiles_file, doc, w)
             /\ ccall' = [NoCfgCall EXCEPT !.op = "save", !.name = name, !.ret = (w = "ok")]
             /\ snap' = CASE w = "ok" ->
                               [n \in ProfileNames |->
                                  IF n = name THEN [saved |-> TRUE, config |-> config]
                                  ELSE IF n \in json_names(load_profiles(profiles_file))
                                  THEN snap[n] ELSE NoSnap]
                          [] w = "open_fails" -> snap
                          [] w = "dump_fails" -> [n \in ProfileNames |-> NoSnap]
             /\ deleted' = IF w = "ok" THEN deleted \ {name} ELSE deleted
    /\ UNCHANGED config
    /\ cfgFrame

\* load_profile, lines 204-229
cfg_load_profile ==
    /\ \E name \in ProfileNames :
         /\ config' = load_profile_config(config, profiles_file, name)
         /\ ccall' = [op |-> "load", name |-> name,
                      ret |-> (name \in json_names(load_profiles(profiles_file))),
                      before |-> config]
    /\ UNCHANGED <<profiles_file, snap, deleted>>
    /\ cfgFrame

\* delete_profile, lines 244-268
cfg_delete_profile ==
    /\ \E name \in ProfileNames, w \in WriteOutcomes :
         IF name \in json_names(load_profiles(profiles_file))
         THEN /\ profiles_file' = write_profiles(profiles_file,
                                     without(load_profiles(profiles_file), name), w)
              /\ ccall' = [NoCfgCall EXCEPT !.op = "delete", !.name = name, !.ret = (w = "ok")]
              /\ snap' = CASE w = "ok" -> [snap EXCEPT ![name] = NoSnap]
                           [] w = "open_fails" -> snap
                           [] w = "dump_fails" -> [n \in ProfileNames |-> NoSnap]
              /\ deleted' = IF w = "ok" THEN deleted \cup {name} ELSE deleted
         ELSE /\ ccall' = [NoCfgCall EXCEPT !.op = "delete", !.name = name]
              /\ UNCHANGED <<profiles_file, snap, deleted>>
    /\ UNCHANGED config
    /\ cfgFrame

ConfigNext ==
    \/ cfg_set
    \/ cfg_reset_to_defaults
    \/ cfg_save_profile
    \/ cfg_load_profile
    \/ cfg_delete_profile

ConfigSpec == Init /\ [][ConfigNext]_vars

\* -------------------------------------------------------------- ModuleSpec
modFrame == UNCHANGED <<orchVars, loggerVars, hashVars, zipVars, privVars, cfgVars, netVars>>

\* _create_module (367-412) makes the object of a registered id
module_created ==
    /\ \E id \in module_map : minst' = NewModule(id)
    /\ mcall' = NoModCall
    /\ modFrame

\* run line 63: module.initialize()
call_initialize ==
    /\ minst # NoModule
    /\ mcall.method = "none"
    /\ \E end \in InitializeEnds(minst.id) :
         /\ minst' = module_initialize(minst, end)
         /\ mcall' = [method |-> "initialize", ret |-> (end = "ok"), end |-> end]
    /\ modFrame

\* run line 72: module.execute(), reached when initialize() returned True
call_execute ==
    /\ mcall.method = "initialize" /\ mcall.ret
    /\ \E end \in ExecuteEnds(minst.id) :
         /\ minst' = module_execute(minst, end)
         /\ mcall' = [method |-> "execute", ret |-> (end[1] = "ok"), end |-> end[1]]
    /\ modFrame

\* run line 87: module.cleanup(), which leaves the status alone
call_cleanup ==
    /\ mcall.method = "execute"
    /\ mcall' = [mcall EXCEPT !.method = "cleanup"]
    /\ UNCHANGED minst
    /\ modFrame

ModuleNext == module_created \/ call_initialize \/ call_execute \/ call_cleanup

ModuleSpec == Init /\ [][ModuleNext]_vars

\* ----------------------------------------------------------------- NetSpec
netFrame == UNCHANGED <<orchVars, loggerVars, hashVars, zipVars, privVars, cfgVars, modVars>>

\* the capture thread is about to return from subprocess.run
CaptureDue == cap_pc = "running" /\ net_now >= cap_end

\* execute lines 59-70: with capture_traffic, _start_packet_capture starts
\* the thread, whose tshark runs for `run` seconds: it exits with or without
\* a capture file, or is killed by the timeout of line 217
net_execute_begin ==
    /\ net_pc = "idle"
    /\ \E capture_traffic \in BOOLEAN, d \in 0..MaxDuration :
         \E run \in 0..(d + RunSlack), ok \in BOOLEAN :
            /\ capture_duration' = d
            /\ IF capture_traffic
               THEN /\ cap_pc' = "running"
                    /\ cap_end' = net_now + run
                    /\ cap_ok' = (ok /\ run < d + RunSlack)
               ELSE /\ cap_pc' = "none"
                    /\ run = 0 /\ ~ok
                    /\ UNCHANGED <<cap_end, cap_ok>>
    /\ net_pc' = "collect"
    /\ UNCHANGED <<net_now, join_deadline, collected_files, hash_pos, net_rows>>
    /\ netFrame

\* one second passes while tshark runs (without a capture thread nothing
\* depends on the time); the thread does not linger once tshark is over
net_tick ==
    /\ cap_pc = "running"
    /\ net_now < MaxNetTime
    /\ ~CaptureDue
    /\ net_now' = net_now + 1
    /\ UNCHANGED <<net_pc, cap_pc, cap_end, cap_ok, capture_duration, join_deadline,
                   collected_files, hash_pos, net_rows>>
    /\ netFrame

\* capture_packets lines 220-242: the thread appends the capture file if
\* tshark succeeded, and ends
capture_finish ==
    /\ CaptureDue
    /\ collected_files' = IF cap_ok
                          THEN Append(collected_files, CaptureFile)
                          ELSE collected_files
    /\ cap_pc' = "finished"
    /\ UNCHANGED <<net_pc, net_now, cap_end, cap_ok, capture_duration, join_deadline,
                   hash_pos, net_rows>>
    /\ netFrame

\* execute lines 72-98: the collectors append their files, then join is
\* called if there is a capture thread
net_collect ==
    /\ net_pc = "collect"
    /\ \E n \in 0..MaxNetFiles :
         collected_files' = collected_files \o SubSeq(NetFiles, 1, n)
    /\ join_deadline' = net_now + capture_duration + JoinSlack
    /\ net_pc' = "join"
    /\ UNCHANGED <<cap_pc, net_now, cap_end, cap_ok, capture_duration, hash_pos, net_rows>>
    /\ netFrame

\* execute line 98: join returns when the thread has ended or the timeout
\* has passed; _calculate_hashes then opens its iteration (line 584)
net_join_return ==
    /\ net_pc = "join"
    /\ \/ cap_pc # "running"
       \/ net_now >= join_deadline /\ ~CaptureDue
    /\ net_pc' = "hash"
    /\ hash_pos' = 1
    /\ UNCHANGED <<cap_pc, net_now, cap_end, cap_ok, capture_duration, join_deadline,
                   collected_files, net_rows>>
    /\ netFrame

\* _calculate_hashes lines 584-604: one turn of `for file_path in
\* self.collected_files`, or its end
net_hash_step ==
    /\ net_pc = "hash"
    /\ IF hash_pos <= Len(collected_files)
       THEN /\ net_rows' = Append(net_rows, collected_files[hash_pos])
            /\ hash_pos' = hash_pos + 1
            /\ UNCHANGED net_pc
       ELSE /\ net_pc' = "done"
            /\ UNCHANGED <<net_rows, hash_pos>>
    /\ UNCHANGED <<cap_pc, net_now, cap_end, cap_ok, capture_duration, join_deadline,
                   collected_files>>
    /\ netFrame

NetNext ==
    \/ net_execute_begin
    \/ net_tick
    \/ capture_finish
    \/ net_collect
    \/ net_join_return
    \/ net_hash_step

NetSpec == Init /\ [][NetNext]_vars

\* ------------------------------------------------------ observation helpers
AllStartArgs == ModuleIdLists \X (SUBSET MayBreak) \X BOOLEAN

Terminals == SelectSeq(events, LAMBDA e : e.sig = "collection_completed")
HasTerminal == Len(Terminals) > 0
Terminal == Terminals[1]

Progresses == SelectSeq(events, LAMBDA e : e.sig = "progress_updated")
CompletedIds ==
    LET done == SelectSeq(events, LAMBDA e : e.sig = "module_completed")
    IN [j \in 1..Len(done) |-> done[j].id]

NumModules == Len(modules)
RunActive == wpc \notin {"idle", "done"}

Started(j)  == calls[j].init # "none"
Executed(j) == calls[j].exec # "none"
\* module j's initialize/execute/cleanup sequence has returned
Returned(j) ==
    \/ calls[j].init = "False"
    \/ calls[j].init = "True" /\ calls[j].exec \in {"True", "False"} /\ calls[j].cleanup = "ok"
\* module j ended as succeeded or failed
Finished(j) == calls[j].init = "False" \/ calls[j].exec \in {"True", "False"}
ReturnedFalse(j) == calls[j].init = "False" \/ calls[j].exec = "False"
RaisedIn(j) == "raise" \in {calls[j].init, calls[j].exec, calls[j].cleanup}
\* an exception reached the top-level handler of run (setup leaves i at 0)
Raised == (wpc = "done" /\ i = 0) \/ \E j \in 1..NumModules : RaisedIn(j)
Tallied == completed + Len(failed_modules)

RECURSIVE IsSubseq(_, _)
IsSubseq(a, b) ==
    IF a = <<>> THEN TRUE
    ELSE IF b = <<>> THEN FALSE
    ELSE IF Head(a) = Head(b) THEN IsSubseq(Tail(a), Tail(b))
    ELSE IsSubseq(a, Tail(b))

IsPrefix(a, b) == Len(a) <= Len(b) /\ \A j \in 1..Len(a) : a[j] = b[j]

\* ------------------------------------------------------------------ C1
\* C1: a start_collection call made while a run is active (is_running set, or
\* the worker still inside run) returns False and changes nothing of the
\* controller or of the active worker: same thread, same modules, same flag,
\* same emitted events, same worker position; this for every argument tuple.
\* (A start_collection step is a step of the idle control context that leaves
\* the worker where it is or puts a worker at the top of run: only such steps
\* are compared with the handler.)
C1_RejectedWhileActive ==
    [][((is_running \/ RunActive)
          /\ ctl_pc = "idle" /\ ctl_pc' = "idle" /\ wpc' \in {wpc, "setup"})
        => \A a \in AllStartArgs :
              start_collection(a[1], a[2], a[3])
                 => /\ ret' = "False"
                    /\ is_running /\ is_running'
                    /\ UNCHANGED <<collection_thread, modules, compression, should_stop,
                                   events, wpc, i, completed, failed_modules, success,
                                   calls, stop_k>>]_vars

\* a start was rejected while the worker is in the middle of a module
C1_Witness ==
    /\ ret = "False" /\ is_running
    /\ wpc = "execute" /\ events # <<>>

\* ------------------------------------------------------------------ C2
\* C2 as stated: when should_stop is set before the boundary check of module k
\* (k in 1..n), the finished run has modules 1..k-1 ended as succeeded or
\* failed, no call into and no tally for modules k..n, and the terminal event
\* (False, "Stopped by user").
C2_AsStated ==
    (stop_k \in 1..NumModules /\ wpc = "done")
       => /\ \A j \in 1..(stop_k - 1) : Finished(j)
          /\ \A j \in stop_k..NumModules : ~Started(j) /\ ~Executed(j)
          /\ Tallied <= stop_k - 1
          /\ HasTerminal /\ Terminal = DoneEv(FALSE, MsgStopped, 0)

\* C2 amended: when should_stop is set before the boundary check of module k,
\* no module k..n is ever initialized, executed or tallied, and the terminal
\* event has success False: it is (False, "Stopped by user") with modules
\* 1..k-1 all ended as succeeded or failed, unless an exception (setup, or a
\* call of a module before k) reached the top-level handler first, in which
\* case it is (False, "Collection failed: ...").
C2_Cancellation ==
    stop_k \in 1..NumModules
       => /\ \A j \in stop_k..NumModules : ~Started(j) /\ ~Executed(j)
          /\ Tallied <= stop_k - 1
          /\ wpc = "done"
               => /\ HasTerminal /\ Len(Terminals) = 1
                  /\ IF Raised
                     THEN Terminal = DoneEv(FALSE, MsgFailed, 0)
                     ELSE /\ Terminal = DoneEv(FALSE, MsgStopped, 0)
                          /\ \A j \in 1..(stop_k - 1) : Finished(j)

\* stop was requested while module 1 ran; module 1 finished, module 2 never began
C2_Witness ==
    /\ NumModules = 2 /\ stop_k = 2 /\ wpc = "done"
    /\ Finished(1) /\ ~Started(2)
    /\ Terminal = DoneEv(FALSE, MsgStopped, 0)

\* ------------------------------------------------------------------ C3
\* the number of modules whose initialize() or execute() returned False
NumReturnedFalse == Cardinality({j \in 1..NumModules : ReturnedFalse(j)})

\* the partial-failure scenario: modules 1 and 3 succeed, module 2 fails to initialize
Scenario3 ==
    /\ NumModules = Len(<<"network", "memory", "registry">>)
    /\ calls[1] = [init |-> "True", exec |-> "True", cleanup |-> "ok"]
    /\ calls[2].init = "False"
    /\ calls[3] = [init |-> "True", exec |-> "True", cleanup |-> "ok"]
    /\ wpc = "done"

\* C3: every module whose initialize() or execute() returned False is recorded
\* in failed_modules, and no such return ends the run: a run that ended
\* without cancellation and without an exception has initialized every module
\* and executed every module that initialized. In the scenario of three
\* modules where only module 2 fails (in initialize), modules 1 and 3 have
\* executed, the terminal message names exactly 1 failed module and completed is 2.
C3_FailuresDoNotAbort ==
    /\ Len(failed_modules) = NumReturnedFalse
    /\ (HasTerminal /\ Terminal.text # MsgStopped /\ ~Raised)
          => \A j \in 1..NumModules :
                /\ Started(j)
                /\ calls[j].init = "True" => Executed(j)
    /\ Scenario3
          => /\ Terminal = DoneEv(TRUE, MsgPartial, 1)
             /\ completed = 2
             /\ failed_modules = <<ModuleName(modules[2])>>

C3_Witness == Scenario3 /\ HasTerminal

\* ------------------------------------------------------------------ C4
\* C4: a run whose worker started emits collection_completed exactly once:
\* never twice, a returned run has emitted it, and under a fair worker every
\* started run reaches that point (normal end, cancellation, exception).
C4_TerminalExactlyOnce ==
    /\ [](Len(Terminals) <= 1)
    /\ [](wpc = "done" => Len(Terminals) = 1)
    /\ [](RunActive => <>(wpc = "done" /\ Len(Terminals) = 1))

\* a run ended by an exception has its one terminal event
C4_Witness ==
    /\ wpc = "done" /\ Raised
    /\ Len(Terminals) = 1 /\ Terminal = DoneEv(FALSE, MsgFailed, 0)

\* ------------------------------------------------------------------ C5
\* C5: modules run one after the other in request order: module j+1 is not
\* initialized before module j's initialize/execute/cleanup sequence has
\* returned, the module_completed events carry the ids of a prefix of the
\* worker's module list, and that list is, for every request it can have been
\* loaded from, the request's resolvable ids in request order.
C5_RequestOrder ==
    /\ \A j \in 1..(NumModules - 1) : Started(j + 1) => Returned(j)
    /\ IsPrefix(CompletedIds, modules)
    /\ wpc = "setup"
          => \A a \in AllStartArgs :
                modules = load_modules(a[1], a[2])
                   => /\ IsSubseq(modules, a[1])
                      /\ modules = SelectSeq(a[1], LAMBDA id : create_module(id, a[2]))

\* two different modules completed, in the order of the request
C5_Witness ==
    /\ modules = <<"memory", "network">>
    /\ CompletedIds = <<"memory", "network">>

\* ------------------------------------------------------------------ C6
\* C6: once collection_completed has been emitted, it stays the last event
\* emitted on that run's thread.
C6_TerminalIsLast ==
    HasTerminal => events[Len(events)].sig = "collection_completed"

\* ------------------------------------------------------------------ C7
\* the module loop ended without cancellation and without exception
LoopCompleted == wpc = "done" /\ i = NumModules + 1

\* C7: for a run that was not cancelled (here: one that also met no
\* exception, so that every module ended as completed or failed), the last
\* progress event's `completed` value is the number of modules that ended as
\* completed or failed, initialize() returning False included.
C7_FinalProgressCountsAll ==
    (LoopCompleted /\ Progresses # <<>>)
       => Progresses[Len(Progresses)].cur
             = Cardinality({j \in 1..NumModules : Finished(j)})

\* ------------------------------------------------------------------ C8
\* C8: when the module loop ends without cancellation or exception, the
\* terminal event is (True, "Collection completed successfully!") exactly when
\* no module returned False, and otherwise (True, "Collection completed with N
\* failed module(s)") with N the number of modules whose initialize() or
\* execute() returned False.
C8_TerminalMessage ==
    LoopCompleted
       => /\ Len(Terminals) = 1
          /\ (Terminal = DoneEv(TRUE, MsgSuccess, 0)) <=> (NumReturnedFalse = 0)
          /\ NumReturnedFalse > 0 => Terminal = DoneEv(TRUE, MsgPartial, NumReturnedFalse)

\* a run of two modules that both failed, one in initialize and one in execute
C8_Witness ==
    /\ LoopCompleted /\ NumModules = 2
    /\ calls[1].init = "False" /\ calls[2].exec = "False"
    /\ Terminal = DoneEv(TRUE, MsgPartial, NumModules)

\* ------------------------------------------------------------------ C9
\* C9: an exception raised by a module's initialize() or execute() becomes a
\* failed-module record of that module, and it does not end the run as a
\* failed run.
C9_ModuleExceptionRecorded ==
    \A j \in 1..NumModules :
       (calls[j].init = "raise" \/ calls[j].exec = "raise")
          => /\ \E f \in 1..Len(failed_modules) : failed_modules[f] = ModuleName(modules[j])
             /\ ~(HasTerminal /\ Terminal = DoneEv(FALSE, MsgFailed, 0))

\* ------------------------------------------------------------------ C10
\* C10: a module whose execute() was called has cleanup() called once the
\* worker has left that module, whatever execute() did; and a cleanup() that
\* raises does not end the run as a failed run.
C10_CleanupAlwaysRuns ==
    \A j \in 1..NumModules :
       /\ (Executed(j) /\ (wpc = "done" \/ i > j)) => calls[j].cleanup # "none"
       /\ calls[j].cleanup = "raise"
             => ~(HasTerminal /\ Terminal = DoneEv(FALSE, MsgFailed, 0))

\* ------------------------------------------------------------------ C11
\* the run's output directory has been created (run line 38 returned)
OutputDirCreated == wpc \notin {"idle", "setup"} /\ ~(wpc = "done" /\ i = 0)
\* the worker has called logger.initialize (run line 40)
SinkInitialized == OutputDirCreated
\* the ids of a request that _create_module turns into a module
Resolvable(a) == SelectSeq(a[1], LAMBDA id : id \in module_map /\ id \notin a[2])

\* the requests that resolve to no usable module
UnusableArgs == {a \in AllStartArgs : Resolvable(a) = <<>>}

\* a call that returned False and changed nothing else
RefusedCall ==
    /\ ret' = "False"
    /\ ~is_running'
    /\ UNCHANGED <<collection_thread, modules, compression, should_stop, events,
                   wpc, i, completed, failed_modules, success, calls, stop_k, ctl_pc>>
    /\ UNCHANGED <<OutputDirCreated, SinkInitialized>>

\* C11: a start_collection call that reaches module resolution (is_running
\* False) and whose module ids resolve to no usable module (empty list, unknown
\* ids only, every constructor raising) returns, returns False, and changes
\* nothing else: no thread object is created or started, no output directory
\* is created, logger.initialize is not called, and is_running stays False.
C11_NoModulesFailsFast ==
    (~is_running /\ ctl_pc = "idle")
       => \A a \in UnusableArgs :
             /\ ENABLED start_collection(a[1], a[2], a[3])
             /\ ~ENABLED (start_collection(a[1], a[2], a[3]) /\ ~RefusedCall)

\* a fresh controller refused a request: no thread, not running
C11_Witness ==
    /\ ret = "False" /\ ~is_running
    /\ collection_thread = "None" /\ wpc = "idle" /\ events = <<>>

\* ------------------------------------------------------------------ C12
\* the requests with an id that is skipped and an id that is kept
SkippingArgs ==
    {a \in AllStartArgs : Resolvable(a) # <<>> /\ Len(Resolvable(a)) < Len(a[1])}

\* a call that returned True and started a worker on the module list mods
StartedWith(mods) ==
    /\ ret' = "True" /\ is_running'
    /\ collection_thread' = "thread" /\ wpc' = "setup"
    /\ modules' = mods /\ Len(calls') = Len(mods)
    /\ events' = <<>>

\* C12: a start_collection call that reaches module resolution with a request
\* holding unknown ids or ids whose constructor raises, and at least one
\* resolvable id, returns True and starts the worker on exactly the resolvable
\* ids in their request order; and the total carried by every progress event
\* of a run is the length of that list.
C12_UnresolvableIdsSkipped ==
    /\ (~is_running /\ ctl_pc = "idle")
          => \A a \in SkippingArgs :
                /\ ENABLED start_collection(a[1], a[2], a[3])
                /\ ~ENABLED (start_collection(a[1], a[2], a[3])
                               /\ ~StartedWith(Resolvable(a)))
    /\ \A p \in 1..Len(Progresses) : Progresses[p].total = Len(modules)
    /\ Len(calls) = Len(modules)

\* the run of a request such as ["bogus", "network"]: one module, total 1
C12_Witness ==
    /\ wpc = "done" /\ modules = <<"network">>
    /\ Progresses = <<ProgressEv(1, 1)>>
    /\ CompletedIds = <<"network">>

\* ------------------------------------------------------------------ C13
\* the log events of an exception inside report generation or compression
PostStepFailureLogs ==
    {LogEv("Failed to import ReportGenerator: e", "ERROR"),
     LogEv("Failed to generate report: e", "ERROR"),
     LogEv("Compression failed: e", "ERROR")}

PostStepFailed == \E p \in 1..Len(events) : events[p] \in PostStepFailureLogs

\* position of the first collection_completed event (0: none)
TerminalPos ==
    IF HasTerminal
    THEN CHOOSE p \in 1..Len(events) :
            /\ events[p].sig = "collection_completed"
            /\ \A q \in 1..(p - 1) : events[q].sig # "collection_completed"
    ELSE 0

\* C13: an exception inside report generation or compression ends in an
\* ERROR log event and nothing else: the post-steps emit no terminal event
\* themselves, the run goes on to its normal end, and its terminal event,
\* emitted after the failure's log event, is the one the module outcomes alone
\* determine: (True, success message) when no module returned False, else
\* (True, N failed module(s)).
C13_PostStepFailureKeepsOutcome ==
    /\ wpc \in {"report", "compress", "finish"} => ~HasTerminal
    /\ wpc = "report"
          => \A r \in {"import_error", "raise"} :
                LET evs == generate_report(events, r)
                IN /\ evs[Len(evs)] \in PostStepFailureLogs
                   /\ \A p \in 1..Len(evs) : evs[p].sig # "collection_completed"
    /\ wpc = "compress"
          => LET evs == compress_evidence(events, "raise")
             IN /\ evs[Len(evs)] \in PostStepFailureLogs
                /\ \A p \in 1..Len(evs) : evs[p].sig # "collection_completed"
    /\ \A p \in 1..Len(events) :
          (events[p] \in PostStepFailureLogs /\ HasTerminal) => p < TerminalPos
    /\ (PostStepFailed /\ wpc = "done")
          => /\ LoopCompleted /\ Len(Terminals) = 1
             /\ Terminal = IF NumReturnedFalse = 0
                           THEN DoneEv(TRUE, MsgSuccess, 0)
                           ELSE DoneEv(TRUE, MsgPartial, NumReturnedFalse)

\* report generation and compression both raised in a run whose modules all succeeded
C13_Witness ==
    /\ wpc = "done"
    /\ \E p, q \in 1..Len(events) :
          /\ p < q /\ q < TerminalPos
          /\ events[p] = LogEv("Failed to generate report: e", "ERROR")
          /\ events[q] = LogEv("Compression failed: e", "ERROR")
    /\ Terminal = DoneEv(TRUE, MsgSuccess, 0)

\* ------------------------------------------------------------------ C14
\* the run emitted its terminal event with no stop request ever made
EndedOnItsOwn == wpc = "done" /\ HasTerminal /\ ~should_stop /\ ctl_pc = "idle"

\* C14: after the terminal event of a run that ended on its own, is_running
\* is False and start_collection on the same controller, with a request that
\* has a resolvable id, returns True.
C14_IdleAfterNaturalEnd ==
    EndedOnItsOwn
       => /\ ~is_running
          /\ \A a \in AllStartArgs :
                Resolvable(a) # <<>>
                   => ~ENABLED (start_collection(a[1], a[2], a[3]) /\ ret' # "True")

\* ------------------------------------------------------------------ C15
\* the next step of the control context inside stop_collection
ControlStep == stop_emit_log \/ stop_wait_return

\* C15: the control context is never held up by the worker: whenever it is
\* inside an EvidenceController operation while the worker is inside a
\* module's execute(), report generation or compression, its next step can
\* be taken.
C15_ControlNeverWaits ==
    (ctl_pc # "idle" /\ wpc \in {"execute", "report", "compress"})
       => ENABLED ControlStep

\* ------------------------------------------------------------------ C16
\* the worker is past logger.initialize (run line 40) and has not yet emitted
\* its terminal event
SinkInUse ==
    wpc \in {"loop", "initialize", "execute", "cleanup", "report", "compress", "finish"}

\* a step of the control context that calls self.logger: every path of
\* start_collection (lines 306, 313, 330, 334) and the end of stop_collection (342)
CtlLoggerCall ==
    \/ \E a \in StartArgs : start_collection(a[1], a[2], a[3])
    \/ stop_wait_return

\* C16: between the worker's logger.initialize and the run's terminal event
\* the control context makes no call on the LoggerService singleton.
C16_OnlyWorkerUsesSink ==
    [][SinkInUse => ~CtlLoggerCall]_vars

\* ------------------------------------------------------------------ C17
\* an initialize call that returns True on a logger whose earlier initialize
\* made a ledger
Reinitialize ==
    /\ csv_log_path # NoPath /\ ledgers[csv_log_path] # <<>>
    /\ \E d \in Dirs : initialize(d, "ok")

\* C17: an initialize that follows an earlier one, whatever the directory and
\* whenever it is made, opens a human log and a ledger at paths that differ
\* from the prior ones and leaves every row of every existing ledger in
\* place; and a log_collection row goes into the ledger opened last and into
\* no other.
C17_ReinitializeOpensFreshSink ==
    [][/\ Reinitialize
          => /\ csv_log_path' # csv_log_path
             /\ text_log_path' # text_log_path
             /\ \A p \in Paths : IsPrefix(ledgers[p], ledgers'[p])
       /\ log_collection
          => \A p \in Paths :
                /\ IsPrefix(ledgers[p], ledgers'[p])
                /\ ledgers'[p] # ledgers[p] => p = csv_log_path]_vars

\* ------------------------------------------------------------------ C18
\* the algorithms a calculate_file_hashes call asks for (all supported ones
\* when no list is passed), and those among them that are supported
RequestedAlgs ==
    LET req == IF hcall.given THEN hcall.algs ELSE <<"md5", "sha1", "sha256">>
    IN {req[k] : k \in DOMAIN req}
RequestedSupported == RequestedAlgs \cap {"md5", "sha1", "sha256"}

\* the read() calls a failure-free chunk loop makes on the file of the call
NeededReads == ((Len(hcall.file.content) + MaxChunk - 1) \div MaxChunk) + 1
\* a read() of the call raised
ReadFails == hcall.fail_at \in 1..NeededReads
\* the file of the call exists, opens, and every read() works
Hashable == hcall.file.state = "ok" /\ ~ReadFails

\* the digest of a whole byte string
WholeDigest(alg, content) == hexdigest(hash_update(alg, hash_new(alg), content))

\* C18: calculate_file_hashes on a readable file returns a mapping whose keys
\* are exactly the requested algorithms that are supported, each with the
\* digest of the file's bytes; unsupported names do not make the call fail;
\* and when no requested algorithm is supported the result is the empty
\* mapping and no read() is made on the file.
C18_KeysAreSupportedRequested ==
    hcall.op = "calculate"
       => /\ ~hcall.out.raised
          /\ Hashable
                => /\ DOMAIN hcall.out.result = RequestedSupported
                   /\ \A alg \in RequestedSupported :
                         hcall.out.result[alg] = WholeDigest(alg, hcall.file.content)
          /\ RequestedSupported = {}
                => /\ hcall.out.result = EmptyMap
                   /\ hcall.out.reads = 0

\* ["crc32", "md5"] on a two-byte file: one key, md5
C18_Witness ==
    /\ hcall.op = "calculate" /\ Hashable
    /\ hcall.algs = <<"crc32", "md5">>
    /\ Len(hcall.file.content) = MaxFileLen
    /\ DOMAIN hcall.out.result = {"md5"}

\* ------------------------------------------------------------------ C19
\* C19: calculate_file_hashes never raises to its caller, and for a missing
\* file, a file that cannot be opened, or a read() that raises (the first one
\* or a later one) it returns the empty mapping, never some of the digests.
C19_FailureGivesEmptyMapping ==
    hcall.op = "calculate"
       => /\ ~hcall.out.raised
          /\ (hcall.file.state \in {"missing", "denied"} \/ ReadFails)
                => hcall.out.result = EmptyMap

\* the second read() of a two-chunk file raised
C19_Witness ==
    /\ hcall.op = "calculate" /\ hcall.file.state = "ok"
    /\ RequestedSupported # {}
    /\ hcall.fail_at = 2 /\ hcall.out.reads = 2 /\ NeededReads > 2
    /\ hcall.out.result = EmptyMap

\* ------------------------------------------------------------------ C20
\* two hexadecimal strings that are equal up to the case of their letters
SameIgnoringCase(a, b) ==
    /\ Len(a) = Len(b)
    /\ \A k \in 1..Len(a) :
          \/ a[k] = b[k]
          \/ {a[k], b[k]} \in {{"a", "A"}, {"b", "B"}, {"c", "C"},
                               {"d", "D"}, {"e", "E"}, {"f", "F"}}

\* C20: for a file that can be hashed and a supported algorithm alg,
\* verify_file_hash(path, calculate_file_hashes(path, [alg])[alg], alg) is
\* True, also with the digest in upper case, and verify_file_hash is True for
\* no expected digest that differs from the computed one by more than letter
\* case; it is False for an unsupported algorithm and for a file that cannot
\* be hashed.
C20_VerifyRoundTrip ==
    hcall.op = "verify"
       => /\ (hcall.alg \in {"md5", "sha1", "sha256"} /\ Hashable)
                => LET d == calculate_file_hashes(
                               hcall.file, TRUE, <<hcall.alg>>, 0, FALSE).result[hcall.alg]
                   IN /\ hcall.expected \in {d, upper(d)} => hcall.ok
                      /\ hcall.ok <=> SameIgnoringCase(d, hcall.expected)
          /\ hcall.alg \notin {"md5", "sha1", "sha256"} => ~hcall.ok
          /\ ~Hashable => ~hcall.ok

\* the digest of the file was passed in upper case, and it has a letter
C20_Witness ==
    /\ hcall.op = "verify" /\ Hashable /\ hcall.ok
    /\ hcall.alg = "sha256" /\ hcall.file.content # <<>>
    /\ hcall.expected = upper(WholeDigest("sha256", hcall.file.content))
    /\ hcall.expected # WholeDigest("sha256", hcall.file.content)

\* ------------------------------------------------------------------ C21
Compressed == zcall.op = "run" /\ zcall.out.level # 0

\* C21: the compression effort follows the total byte count S of the output
\* tree with inclusive lower bounds: S >= 10 GiB gives the fastest level (1),
\* 5 GiB <= S < 10 GiB the balanced level (3), S < 5 GiB the strongest level
\* (6), the sizes of exactly 5 GiB and exactly 10 GiB included.
C21_LevelByInclusiveThresholds ==
    Compressed =>
       LET S == zcall.out.total
       IN  /\ S >= 10 * UnitsPerGiB => zcall.out.level = 1
           /\ (S >= 5 * UnitsPerGiB /\ S < 10 * UnitsPerGiB) => zcall.out.level = 3
           /\ S < 5 * UnitsPerGiB => zcall.out.level = 6

\* ------------------------------------------------------------------ C22
Totals == 0..(MaxTreeFiles * MaxFileGiB * UnitsPerGiB)

\* C22: the level depends on the total size alone and never rises with it:
\* whatever the files that add up to S, the level of the job is the level of
\* S, no smaller total has a lower level and no larger total a higher one.
C22_LevelMonotonic ==
    Compressed =>
       \A S1 \in Totals :
          /\ S1 = zcall.out.total => compress_level(S1) = zcall.out.level
          /\ S1 <= zcall.out.total => compress_level(S1) >= zcall.out.level
          /\ S1 >= zcall.out.total => compress_level(S1) <= zcall.out.level

\* a job of two files whose total lies in the balanced tier
C22_Witness ==
    /\ Compressed
    /\ zcall.out.count = 2
    /\ zcall.out.level = 3
    /\ zcall.out.archive = "written"

\* ------------------------------------------------------------------ C23
ZipLevels == {zcall.out.logs[k].level : k \in DOMAIN zcall.out.logs}

\* C23: compressing an output tree without files opens no archive, emits a
\* WARNING and no ERROR, and leaves the terminal event what the module
\* failures alone make it.
C23_EmptyTreeIsNoOp ==
    (zcall.op = "run" /\ zcall.enabled /\ ztree = <<>>) =>
       /\ zcall.out.archive = "none"
       /\ zcall.out.level = 0
       /\ "WARNING" \in ZipLevels
       /\ "ERROR" \notin ZipLevels
       /\ zcall.final = FinalEvents(zcall.failed)
       /\ zcall.final[Len(zcall.final)].sig = "collection_completed"
       /\ zcall.final[Len(zcall.final)].ok

C23_Witness ==
    /\ zcall.op = "run" /\ zcall.enabled /\ ztree = <<>>
    /\ zcall.fail = "write"
    /\ zcall.failed # <<>>

\* ------------------------------------------------------------------ C24
UserLevelIds == {"network", "filesystem", "live_system", "browser"}
AdminLevelIds == {"memory", "disk", "registry", "event_logs"}

\* C24: check_required_privileges answers True for the user-level ids and for
\* every name outside its table whatever the admin status; for an admin-level
\* name it answers True exactly when is_admin() is True; and one
\* PrivilegeManager gives one answer to is_admin(), however often it is asked.
C24_PrivilegeTable ==
    /\ pcall.op = "check" =>
         /\ pcall.id \in UserLevelIds => pcall.has
         /\ pcall.id \notin DOMAIN privilege_requirements => pcall.has
         /\ pcall.id \in AdminLevelIds => (pcall.has <=> pm_is_admin = "True")
    /\ Cardinality(pm_answers) <= 1
    /\ pm_answers # {} => pm_answers = {pm_is_admin}

\* an administrator's process in which the first is_admin() raised: the
\* admin-level name is refused, and stays refused
C24_Witness ==
    /\ pcall.op = "check"
    /\ pcall.id = "memory"
    /\ ~pcall.has
    /\ os_admin = "True"
    /\ pm_answers = {"False"}

\* ------------------------------------------------------------------ C29
\* C29: in a process without administrator rights, every registered module
\* whose initialize() refuses to run there is refused by
\* check_required_privileges too, and its card is disabled once
\* check_privileges has run.
C29_AdminModulesRefused ==
    os_admin = "False" =>
       /\ (pcall.op = "check" /\ pcall.id \in module_map \cap AdminOnlyModules)
             => ~pcall.has
       /\ win_checked => \A id \in CardIds \cap AdminOnlyModules : ~cards[id]

\* ------------------------------------------------------------------ C25
\* C25: load_profile(P) after a successful save_profile(P) and calls of set()
\* gives back, for every key path, the value get() returned when P was saved;
\* and a profile whose delete_profile returned True is not listed, and
\* load_profile of it returns False and leaves the configuration as it was.
C25_ProfileRoundTrip ==
    /\ (ccall.op = "load" /\ snap[ccall.name].saved) =>
          /\ ccall.ret
          /\ \A k \in KeyPaths : get(config, k) = get(snap[ccall.name].config, k)
    /\ \A n \in deleted : n \notin list_profiles(profiles_file)
    /\ (ccall.op = "load" /\ ccall.name \in deleted) =>
          /\ ~ccall.ret
          /\ config = ccall.before

\* a profile saved with a nested value, the value changed by set(), the
\* profile loaded
C25_Witness ==
    /\ ccall.op = "load"
    /\ snap[ccall.name].saved
    /\ ccall.before # config
    /\ get(config, <<"compression", "format">>) = Leaf("v2")
    /\ get(ccall.before, <<"compression", "format">>) = Leaf("v1")

\* ------------------------------------------------------------------ C26
\* C26: when execute() of a registered module has returned, the status is
\* COMPLETED if it returned True and FAILED if it returned False, and when
\* initialize() has returned False the status is FAILED.
C26_StatusFollowsReturn ==
    /\ mcall.method = "execute" =>
          minst.status = (IF mcall.ret THEN "COMPLETED" ELSE "FAILED")
    /\ (mcall.method = "initialize" /\ ~mcall.ret) => minst.status = "FAILED"

\* ------------------------------------------------------------------ C27
\* C27: every module_completed event is followed at once by a
\* progress_updated event, and a run whose loop went through all its n
\* modules has emitted n progress events.
C27_ProgressAfterEveryModule ==
    /\ \A p \in 1..(Len(events) - 1) :
          events[p].sig = "module_completed" => events[p + 1].sig = "progress_updated"
    /\ LoopCompleted => Len(Progresses) = NumModules

\* ------------------------------------------------------------------ C30
Emitted(e) == \E p \in DOMAIN events : events[p] = e
ReportRan == Emitted(LogEv("Generating collection report...", "INFO"))
CompressRan == Emitted(LogEv("Compressing evidence package...", "INFO"))
StoppedByUser == HasTerminal /\ Terminal.text = MsgStopped
\* the worker has performed the boundary check of the last module
PassedLastCheck ==
    Len(SelectSeq(events, LAMBDA e : e.sig = "module_started")) = NumModules
\* should_stop was set when no boundary check was left, and the run is over
StoppedTooLate == stop_k = NumModules + 1 /\ PassedLastCheck /\ wpc = "done"

RowsOf(f) == Cardinality({k \in DOMAIN net_rows : net_rows[k] = f})

\* C28: the capture thread has ended when _calculate_hashes begins, and once
\* execute and the thread are over every file in collected_files, the capture
\* file included, has exactly one ledger row.
C28_CaptureJoinedBeforeHashing ==
    /\ net_pc \in {"hash", "done"} => cap_pc # "running"
    /\ (net_pc = "done" /\ cap_pc # "running") =>
          \A k \in DOMAIN collected_files : RowsOf(collected_files[k]) = 1

====
